---- MODULE Spec2Model ----
(***************************************************************************)
(* Model of the FUNDACITE request tracker (src/app.py): the session, the   *)
(* Solicitud table and the handlers of /api/login, /api/logout and         *)
(* /api/solicitudes, and the page layout of /api/export-pdf.               *)
(***************************************************************************)
EXTENDS Integers, Sequences, FiniteSets, TLC

(* ------------------------------ bounds --------------------------------- *)
\* Largest primary key the table hands out under Spec.
MaxId == 1
\* Largest primary key the table hands out under SpecList.
MaxListId == 2
\* Spec draws its readings of datetime.utcnow() from Reading(0..MaxTime).
MaxTime == 1
\* SpecList draws its readings of datetime.utcnow() from Reading(0..MaxListTime).
MaxListTime == 2

(* --------------------------- program data ------------------------------ *)
\* Python's None / SQL NULL.
NULL == "<None>"

\* DEPARTAMENTOS (the model keeps the first three of the seven).
DEPARTAMENTOS == <<"DTISC", "DIAC", "DGA">>

Deps == {DEPARTAMENTOS[i] : i \in 1..Len(DEPARTAMENTOS)}

\* dep.lower() for the departments above.
lower(dep) ==
    CASE dep = "DTISC" -> "dtisc"
      [] dep = "DIAC" -> "diac"
      [] dep = "DGA" -> "dga"
      [] OTHER -> dep

\* The User table after the bootstrap loop: one account per department,
\* username dep.lower(), password "fundacite".
User == [u \in {lower(d) : d \in Deps} |->
           [username |-> u,
            departamento |-> CHOOSE d \in Deps : lower(d) = u,
            password |-> "fundacite"]]

\* User.check_password: the hash of the stored password matches exactly the
\* password it was made from.
check_password(user, password) == user.password = password

\* A datetime counts microseconds; this many make a second.
MicrosPerSecond == 1000000

\* The k-th reading of datetime.utcnow(), in microseconds: the readings are
\* half a second apart, so two of them can fall within one second.
Reading(k) == k * (MicrosPerSecond \div 2)

Times == {Reading(k) : k \in 0..MaxTime}

ListTimes == {Reading(k) : k \in 0..MaxListTime}

VARIABLES
    db,       \* committed rows of the Solicitud table: id -> row
    session,  \* the client's Flask session (departamento, username)
    resp      \* last response: handler, HTTP status, JSON list body

vars == <<db, session, resp>>

(* ------------------------------ helpers -------------------------------- *)
\* Python truthiness of a session value: None and "" are falsy.
Falsy(x) == x = NULL \/ x = ""

EmptySession == [departamento |-> NULL, username |-> NULL]

Response(op, code) == [op |-> op, code |-> code, body |-> <<>>]

\* Columns declared nullable=False.
NotNullColumns ==
    {"cedula", "nombre", "dependencia", "tipo", "descripcion",
     "departamento_destino"}

\* The row satisfies the NOT NULL constraints of the Solicitud table.
IntegrityOk(row) == \A c \in NotNullColumns : row[c] # NULL

\* db.session.commit() succeeds: the storage accepts the write and every
\* pending row satisfies the table's constraints.
CommitSucceeds(pending, storageOk) ==
    storageOk /\ \A i \in DOMAIN pending : IntegrityOk(pending[i])

\* Variant of rollback that keeps the pending changes.
rollback_Conserva(committed, pending) == pending

\* db.session.rollback(): pending changes are discarded, the committed rows
\* stay.
rollback(committed, pending) == committed

\* Primary key SQLite gives the next inserted row: 1 on an empty table,
\* else the largest rowid plus one.
NextId(rows) ==
    IF DOMAIN rows = {} THEN 1
    ELSE (CHOOSE m \in DOMAIN rows : \A i \in DOMAIN rows : i <= m) + 1

\* Solicitud.to_dict
to_dict(s) ==
    [id |-> s.id,
     cedula |-> s.cedula,
     nombre |-> s.nombre,
     dependencia |-> s.dependencia,
     tipo |-> s.tipo,
     descripcion |-> s.descripcion,
     departamento_destino |-> s.departamento_destino,
     fecha_creacion |-> s.fecha_creacion,
     estado |-> s.status,
     quien_atendio |-> s.quien_atendio,
     que_hizo |-> s.que_hizo]

\* werkzeug.http.http_date, which Flask's JSON provider applies to a datetime:
\* the date and time to the whole second, the microseconds dropped.
http_date(t) == t \div MicrosPerSecond

\* jsonify of one to_dict() result: fecha_creacion, the only datetime in it,
\* is rendered by http_date; the other values go out as they are.
jsonify(d) == [d EXCEPT !.fecha_creacion = http_date(@)]

(* ------------------------- listing (GET) ------------------------------- *)
\* Variant of Visible that forgets the sender's side of the filter.
Visible_SoloDestino(s, departamento) ==
    s.departamento_destino = departamento

\* The filter of get_solicitudes.
Visible(s, departamento) ==
    s.departamento_destino = departamento \/ s.dependencia = departamento

\* Rows of the table in scan (rowid) order.
RECURSIVE ScanFrom(_, _)
ScanFrom(rows, i) ==
    IF \A j \in DOMAIN rows : j < i THEN <<>>
    ELSE IF i \in DOMAIN rows THEN <<rows[i]>> \o ScanFrom(rows, i + 1)
    ELSE ScanFrom(rows, i + 1)

Scan(rows) == ScanFrom(rows, 1)

\* Variant of InsertDesc that puts a row before the rows of equal timestamp.
RECURSIVE InsertDesc_AntesDeIguales(_, _)
InsertDesc_AntesDeIguales(sorted, s) ==
    IF sorted = <<>> THEN <<s>>
    ELSE IF Head(sorted).fecha_creacion > s.fecha_creacion
         THEN <<Head(sorted)>> \o InsertDesc_AntesDeIguales(Tail(sorted), s)
         ELSE <<s>> \o sorted

\* Place row s in a sequence already ordered by fecha_creacion descending,
\* after every row that is not older than s.
RECURSIVE InsertDesc(_, _)
InsertDesc(sorted, s) ==
    IF sorted = <<>> THEN <<s>>
    ELSE IF Head(sorted).fecha_creacion >= s.fecha_creacion
         THEN <<Head(sorted)>> \o InsertDesc(Tail(sorted), s)
         ELSE <<s>> \o sorted

\* ORDER BY fecha_creacion DESC on the SQLite table: the rows are scanned in
\* rowid order and sorted on the key alone.
RECURSIVE order_by_fecha_desc(_)
order_by_fecha_desc(rows) ==
    IF rows = <<>> THEN <<>>
    ELSE InsertDesc(order_by_fecha_desc(SubSeq(rows, 1, Len(rows) - 1)),
                    rows[Len(rows)])

\* Solicitud.query.filter(...).order_by(...).all()
query_solicitudes(rows, departamento) ==
    order_by_fecha_desc(SelectSeq(Scan(rows), LAMBDA s : Visible(s, departamento)))

get_solicitudes ==
    /\ IF Falsy(session.departamento)
       THEN resp' = Response("get_solicitudes", 401)
       ELSE LET solicitudes == query_solicitudes(db, session.departamento)
            IN resp' = [op |-> "get_solicitudes", code |-> 200,
                        body |-> [i \in 1..Len(solicitudes) |->
                                    jsonify(to_dict(solicitudes[i]))]]
    /\ UNCHANGED <<db, session>>

(* --------------------------- session ----------------------------------- *)
Usernames == {lower(d) : d \in Deps} \cup {"nadie"}
Passwords == {"fundacite", "otra"}

login(username, password) ==
    IF username \in DOMAIN User /\ check_password(User[username], password)
    THEN /\ session' = [departamento |-> User[username].departamento,
                        username |-> User[username].username]
         /\ resp' = Response("login", 200)
         /\ UNCHANGED db
    ELSE /\ resp' = Response("login", 401)
         /\ UNCHANGED <<db, session>>

logout ==
    /\ session' = EmptySession
    /\ resp' = Response("logout", 200)
    /\ UNCHANGED db

(* --------------------------- create (POST) ----------------------------- *)
RequiredKeys == {"cedula", "nombre", "tipo", "descripcion", "departamento_destino"}

\* Variant of NewSolicitud that lets the payload name the sender.
NewSolicitud_DependenciaDelPayload(data, departamento, id, now) ==
    [id |-> id,
     cedula |-> data.cedula,
     nombre |-> data.nombre,
     dependencia |-> IF "dependencia" \in DOMAIN data
                     THEN data.dependencia ELSE departamento,
     tipo |-> data.tipo,
     descripcion |-> data.descripcion,
     departamento_destino |-> data.departamento_destino,
     fecha_creacion |-> now,
     status |-> "Recibida",
     quien_atendio |-> NULL,
     que_hizo |-> NULL]

\* The Solicitud(...) constructor call of create_solicitud, with the column
\* defaults applied at insert (id, fecha_creacion) and the unset nullable
\* columns.
NewSolicitud(data, departamento, id, now) ==
    [id |-> id,
     cedula |-> data.cedula,
     nombre |-> data.nombre,
     dependencia |-> departamento,
     tipo |-> data.tipo,
     descripcion |-> data.descripcion,
     departamento_destino |-> data.departamento_destino,
     fecha_creacion |-> now,
     status |-> "Recibida",
     quien_atendio |-> NULL,
     que_hizo |-> NULL]

\* db.session.add(new_solicitud)
AddRow(rows, s) == [i \in DOMAIN rows \cup {s.id} |-> IF i = s.id THEN s ELSE rows[i]]

create_solicitud(data, now, storageOk) ==
    /\ UNCHANGED session
    /\ IF Falsy(session.departamento)
       THEN /\ resp' = Response("create_solicitud", 401)
            /\ UNCHANGED db
       ELSE IF ~(RequiredKeys \subseteq DOMAIN data)
       THEN \* KeyError inside the try block
            /\ db' = rollback(db, db)
            /\ resp' = Response("create_solicitud", 400)
       ELSE LET pending == AddRow(db, NewSolicitud(data, session.departamento,
                                                     NextId(db), now))
            IN IF CommitSucceeds(pending, storageOk)
               THEN /\ db' = pending
                    /\ resp' = Response("create_solicitud", 201)
               ELSE /\ db' = rollback(db, pending)
                    /\ resp' = Response("create_solicitud", 400)

(* --------------------------- update (PUT) ------------------------------ *)
\* Variant of SenderUpdate that also copies the status from the payload.
SenderUpdate_TambienEstado(s, data) ==
    [s EXCEPT
       !.descripcion =
           IF "descripcion" \in DOMAIN data THEN data.descripcion ELSE @,
       !.departamento_destino =
           IF "departamento_destino" \in DOMAIN data
           THEN data.departamento_destino ELSE @,
       !.status = IF "estado" \in DOMAIN data THEN data.estado ELSE @]

\* The assignments of the sender branch.
SenderUpdate(s, data) ==
    [s EXCEPT
       !.descripcion =
           IF "descripcion" \in DOMAIN data THEN data.descripcion ELSE @,
       !.departamento_destino =
           IF "departamento_destino" \in DOMAIN data
           THEN data.departamento_destino ELSE @]

\* Variant of RecipientUpdate that also copies the creation timestamp.
RecipientUpdate_TambienFecha(s, data) ==
    [s EXCEPT
       !.status = IF "estado" \in DOMAIN data THEN data.estado ELSE @,
       !.quien_atendio =
           IF "quien_atendio" \in DOMAIN data THEN data.quien_atendio ELSE @,
       !.que_hizo = IF "que_hizo" \in DOMAIN data THEN data.que_hizo ELSE @,
       !.fecha_creacion =
           IF "fecha_creacion" \in DOMAIN data THEN data.fecha_creacion ELSE @]

\* The assignments of the recipient branch.
RecipientUpdate(s, data) ==
    [s EXCEPT
       !.status = IF "estado" \in DOMAIN data THEN data.estado ELSE @,
       !.quien_atendio =
           IF "quien_atendio" \in DOMAIN data THEN data.quien_atendio ELSE @,
       !.que_hizo = IF "que_hizo" \in DOMAIN data THEN data.que_hizo ELSE @]

\* Variant of Role without the final else: whoever is not the sender is
\* treated as the recipient.
Role_SinElse(departamento, s) ==
    IF departamento = s.dependencia THEN "emisor" ELSE "receptor"

\* The if / elif / else chain on the acting department.
Role(departamento, s) ==
    IF departamento = s.dependencia THEN "emisor"
    ELSE IF departamento = s.departamento_destino THEN "receptor"
    ELSE "ninguno"

update_solicitud(id, data, storageOk) ==
    /\ UNCHANGED session
    /\ IF id \notin DOMAIN db
       THEN \* get_or_404, before the session is looked at
            /\ resp' = Response("update_solicitud", 404)
            /\ UNCHANGED db
       ELSE IF Falsy(session.departamento)
       THEN /\ resp' = Response("update_solicitud", 401)
            /\ UNCHANGED db
       ELSE IF Role(session.departamento, db[id]) = "ninguno"
       THEN /\ resp' = Response("update_solicitud", 403)
            /\ UNCHANGED db
       ELSE LET solicitud ==
                    IF Role(session.departamento, db[id]) = "emisor"
                    THEN SenderUpdate(db[id], data)
                    ELSE RecipientUpdate(db[id], data)
                pending == [db EXCEPT ![id] = solicitud]
            IN IF CommitSucceeds(pending, storageOk)
               THEN /\ db' = pending
                    /\ resp' = Response("update_solicitud", 200)
               ELSE /\ db' = rollback(db, pending)
                    /\ resp' = Response("update_solicitud", 400)

(* --------------------------- delete (DELETE) --------------------------- *)
\* db.session.delete(solicitud)
DeleteRow(rows, id) == [i \in DOMAIN rows \ {id} |-> rows[i]]

delete_solicitud(id, storageOk) ==
    /\ UNCHANGED session
    /\ IF id \notin DOMAIN db
       THEN /\ resp' = Response("delete_solicitud", 404)
            /\ UNCHANGED db
       ELSE LET pending == DeleteRow(db, id)
            IN IF CommitSucceeds(pending, storageOk)
               THEN /\ db' = pending
                    /\ resp' = Response("delete_solicitud", 200)
               ELSE /\ db' = rollback(db, pending)
                    /\ resp' = Response("delete_solicitud", 400)

(* ------------------------ report (export-pdf) -------------------------- *)
\* width, height = letter, in points: the page is 792 high.
height == 792
\* leading of long_text_style.
leading == 14

\* Lines Paragraph.wrapOn breaks a text into at the report's column width.
wrap_lines(text) ==
    CASE text = "corto" -> 1
      [] text = "largo" -> 30
      [] OTHER -> 1

\* Paragraph(text, long_text_style).wrapOn(c, w, height)[1]
wrapOn(text) == leading * wrap_lines(text)

\* c.drawString / drawOn / line at the cursor: one more mark on the current page.
Draw(c, what, id, y) ==
    [c EXCEPT !.ops = Append(@, [page |-> c.page, y |-> y, what |-> what, id |-> id])]

\* One call of c.drawString(margin + 10, y_position, detail); y_position -= 15
\* for each of the n entries of details.
RECURSIVE DrawDetails(_, _, _)
DrawDetails(c, id, n) ==
    IF n = 0 THEN c
    ELSE LET drawn == DrawDetails(c, id, n - 1)
         IN [Draw(drawn, "detalle", id, drawn.y) EXCEPT !.y = @ - 15]

\* Variant of NeedsNewPage that waits until the cursor has left the page.
NeedsNewPage_FueraDePagina(y_position) == y_position < 0

\* The test that opens a new page before a record.
NeedsNewPage(y_position) == y_position < 100

\* c.showPage() and the continuation title.
NewPage(c) ==
    [Draw([c EXCEPT !.page = @ + 1, !.y = height - 50], "continuacion", 0, height - 50)
       EXCEPT !.y = @ - 30]

\* The body of the loop over solicitudes, for one record.
RenderSolicitud(c, s) ==
    LET c1 == IF NeedsNewPage(c.y) THEN NewPage(c) ELSE c
        c2 == [Draw(c1, "encabezado", s.id, c1.y) EXCEPT !.y = @ - 15]
        c3 == DrawDetails(c2, s.id, 8)
        c4 == [Draw([c3 EXCEPT !.y = @ - 5], "descripcion:", s.id, c3.y - 5)
                 EXCEPT !.y = @ - 15]
        desc_height == wrapOn(s.descripcion)
        c5 == [Draw(c4, "descripcion", s.id, c4.y - desc_height)
                 EXCEPT !.y = @ - (desc_height + 10)]
        res_height == wrapOn(s.que_hizo)
        c6 == IF ~Falsy(s.que_hizo)
              THEN LET c6a == [Draw(c5, "resolucion:", s.id, c5.y) EXCEPT !.y = @ - 15]
                   IN [Draw(c6a, "resolucion", s.id, c6a.y - res_height)
                         EXCEPT !.y = @ - (res_height + 20)]
              ELSE [Draw(c5, "resolucion: N/A", s.id, c5.y) EXCEPT !.y = @ - 20]
    IN [Draw([c6 EXCEPT !.y = @ - 10], "linea", s.id, c6.y - 10) EXCEPT !.y = @ - 20]

RECURSIVE RenderAll(_, _)
RenderAll(c, solicitudes) ==
    IF solicitudes = <<>> THEN c
    ELSE RenderAll(RenderSolicitud(c, Head(solicitudes)), Tail(solicitudes))

\* The canvas after the report title and the generation date.
ReportHead ==
    LET c0 == [page |-> 1, y |-> height - 50, ops |-> <<>>]
        c1 == [Draw(c0, "titulo", 0, c0.y) EXCEPT !.y = @ - 30]
    IN [Draw(c1, "fecha", 0, c1.y) EXCEPT !.y = @ - 20]

\* The drawing part of export_pdf.
RenderReport(solicitudes) ==
    IF solicitudes = <<>>
    THEN Draw(ReportHead, "no hay solicitudes", 0, ReportHead.y)
    ELSE RenderAll(ReportHead, solicitudes)

export_pdf(export_all, ids) ==
    /\ UNCHANGED <<db, session>>
    /\ IF export_all
       THEN resp' = [op |-> "export_pdf", code |-> 200,
                     body |-> RenderReport(Scan(db)).ops]
       ELSE IF ids # {}
       THEN resp' = [op |-> "export_pdf", code |-> 200,
                     body |-> RenderReport(
                                 SelectSeq(Scan(db), LAMBDA s : s.id \in ids)).ops]
       ELSE resp' = Response("export_pdf", 400)

(* ----------------------------- inputs ---------------------------------- *)
\* JSON bodies sent to POST /api/solicitudes: plain ones, one that also
\* carries keys the handler never reads (the only one addressed to "DGA"),
\* one with a null descripcion and one without departamento_destino.
CreatePayloads ==
    {[cedula |-> "V-1", nombre |-> "Ana", tipo |-> "Soporte",
      descripcion |-> "d0", departamento_destino |-> d] : d \in Deps \ {"DGA"}}
    \cup
    {[cedula |-> "V-1", nombre |-> "Ana", tipo |-> "Soporte",
      descripcion |-> "d0", departamento_destino |-> "DGA",
      dependencia |-> "DGA", status |-> "Atendida", estado |-> "Atendida",
      fecha_creacion |-> Reading(MaxTime), id |-> MaxId],
     [cedula |-> "V-1", nombre |-> "Ana", tipo |-> "Soporte",
      descripcion |-> NULL, departamento_destino |-> "DIAC"],
     [cedula |-> "V-1", nombre |-> "Ana", tipo |-> "Soporte",
      descripcion |-> "d0"]}

\* JSON bodies sent to PUT /api/solicitudes/<id>.
UpdatePayloads ==
    {[descripcion |-> "d1", departamento_destino |-> d, estado |-> "Atendida",
      quien_atendio |-> "Eva", que_hizo |-> "h1", dependencia |-> "DGA",
      fecha_creacion |-> Reading(MaxTime), id |-> MaxId, cedula |-> "V-9",
      nombre |-> "Zoe", tipo |-> "Otro"] : d \in Deps}
    \cup
    {[descripcion |-> NULL],
     [cedula |-> "V-9"]}

(* --------------------------- specification ----------------------------- *)
Init ==
    /\ db = <<>>
    /\ session = EmptySession
    /\ resp = Response("none", 0)

Login == \E u \in Usernames, p \in Passwords : login(u, p)

Logout == logout

List == get_solicitudes

\* The table hands out ids up to MaxId.
Create == \E data \in CreatePayloads, now \in Times, ok \in BOOLEAN :
              /\ NextId(db) <= MaxId
              /\ create_solicitud(data, now, ok)

Update == \E id \in 1..MaxId, data \in UpdatePayloads, ok \in BOOLEAN :
              update_solicitud(id, data, ok)

Delete == \E id \in 1..MaxId, ok \in BOOLEAN : delete_solicitud(id, ok)

Next == Login \/ Logout \/ List \/ Create \/ Update \/ Delete

Spec == Init /\ [][Next]_vars

\* The same handlers with the inputs that decide what a listing shows:
\* who is logged in, which rows exist, their departments and timestamps.
LoginList == \E d \in Deps : login(lower(d), "fundacite")

CreateList == \E d \in Deps, now \in ListTimes :
                  /\ NextId(db) <= MaxListId
                  /\ create_solicitud(
                         [cedula |-> "V-1", nombre |-> "Ana", tipo |-> "Soporte",
                          descripcion |-> "d0", departamento_destino |-> d],
                         now, TRUE)

RetargetList == \E id \in 1..MaxListId, d \in Deps :
                    update_solicitud(id, [departamento_destino |-> d], TRUE)

DeleteList == \E id \in 1..MaxListId : delete_solicitud(id, TRUE)

NextList ==
    LoginList \/ Logout \/ List \/ CreateList \/ RetargetList \/ DeleteList

SpecList == Init /\ [][NextList]_vars

\* Largest primary key the table hands out under SpecPair.
MaxPairId == 2

\* The same handlers on a table of several rows that departments create,
\* update with every payload, as sender, recipient or neither, and delete.
LoginPair == \E d \in Deps : login(lower(d), "fundacite")

CreatePair == \E d \in Deps :
                  /\ NextId(db) <= MaxPairId
                  /\ create_solicitud(
                         [cedula |-> "V-1", nombre |-> "Ana", tipo |-> "Soporte",
                          descripcion |-> "d0", departamento_destino |-> d],
                         0, TRUE)

UpdatePair == \E id \in 1..MaxPairId, data \in UpdatePayloads :
                  update_solicitud(id, data, TRUE)

DeletePair == \E id \in 1..MaxPairId : delete_solicitud(id, TRUE)

NextPair ==
    LoginPair \/ Logout \/ List \/ CreatePair \/ UpdatePair \/ DeletePair

SpecPair == Init /\ [][NextPair]_vars

\* Largest number of rows in the table a report is made from.
MaxPdfRows == 3

\* Tables a report is made from: rows 1..n whose descripcion and que_hizo
\* wrap to few or many lines.
PdfRow(id, descripcion, que_hizo) ==
    [id |-> id, cedula |-> "V-1", nombre |-> "Ana", dependencia |-> "DTISC",
     tipo |-> "Soporte", descripcion |-> descripcion,
     departamento_destino |-> "DIAC", fecha_creacion |-> 0,
     status |-> IF que_hizo = NULL THEN "Recibida" ELSE "Atendida",
     quien_atendio |-> IF que_hizo = NULL THEN NULL ELSE "Eva",
     que_hizo |-> que_hizo]

PdfTexts == {"corto", "largo"}

PdfTables ==
    UNION {{[i \in 1..n |-> PdfRow(i, t[i][1], t[i][2])] :
              t \in [1..n -> PdfTexts \X (PdfTexts \cup {NULL})]} :
           n \in 0..MaxPdfRows}

InitPdf ==
    /\ db \in PdfTables
    /\ session = EmptySession
    /\ resp = Response("none", 0)

ExportPdf == \E export_all \in BOOLEAN, ids \in SUBSET (1..MaxPdfRows) :
                 export_pdf(export_all, ids)

NextPdf == ExportPdf

SpecPdf == InitPdf /\ [][NextPdf]_vars

(* ------------------------------ claims --------------------------------- *)
IsListing == resp.op = "get_solicitudes" /\ resp.code = 200

InBody(i) == \E k \in 1..Len(resp.body) : resp.body[k].id = i

\* C1: a listing answered to a logged-in department D holds exactly the rows
\* whose dependencia or departamento_destino is D, with their current field
\* values as the response renders them, each once; and a logged-in department
\* always gets its listing.
C1_ListingVisibility ==
    resp.op = "get_solicitudes" =>
        /\ session.departamento \in Deps => resp.code = 200
        /\ resp.code = 200 =>
             /\ \A i \in DOMAIN db :
                    InBody(i) <=> (session.departamento = db[i].dependencia
                                   \/ session.departamento = db[i].departamento_destino)
             /\ \A k \in 1..Len(resp.body) :
                    /\ resp.body[k].id \in DOMAIN db
                    /\ resp.body[k] = jsonify(to_dict(db[resp.body[k].id]))
                    /\ \A j \in 1..Len(resp.body) :
                           resp.body[j].id = resp.body[k].id => j = k

\* A listing that shows a row to its recipient (not its sender) and hides
\* another row of the table.
C1_Witness ==
    /\ IsListing
    /\ \E i \in DOMAIN db :
           /\ InBody(i)
           /\ db[i].departamento_destino = session.departamento
           /\ db[i].dependencia # session.departamento
    /\ \E i \in DOMAIN db : ~InBody(i)

C2_SenderFrame ==
    [][\A id \in DOMAIN db, data \in UpdatePayloads, ok \in BOOLEAN :
          (/\ resp'.op = "update_solicitud"
           /\ session.departamento = db[id].dependencia
           /\ update_solicitud(id, data, ok))
          => /\ id \in DOMAIN db'
             /\ db'[id].status = db[id].status
             /\ db'[id].quien_atendio = db[id].quien_atendio
             /\ db'[id].que_hizo = db[id].que_hizo]_vars

\* The sender of a self-addressed row has updated it with a payload that
\* carried estado, quien_atendio and que_hizo: the description changed, the
\* status did not.
C2_Witness ==
    /\ resp.op = "update_solicitud" /\ resp.code = 200
    /\ \E i \in DOMAIN db :
           /\ db[i].dependencia = session.departamento
           /\ db[i].departamento_destino = session.departamento
           /\ db[i].descripcion = "d1"
           /\ db[i].status = "Recibida"
           /\ db[i].quien_atendio = NULL

\* C3: an update by a department that is the row's departamento_destino
\* leaves descripcion and departamento_destino as they were, for every row,
\* also one whose dependencia is its departamento_destino.
C3_RecipientFrame ==
    [][\A id \in DOMAIN db, data \in UpdatePayloads, ok \in BOOLEAN :
          (/\ resp'.op = "update_solicitud"
           /\ session.departamento = db[id].departamento_destino
           /\ update_solicitud(id, data, ok))
          => /\ id \in DOMAIN db'
             /\ db'[id].descripcion = db[id].descripcion
             /\ db'[id].departamento_destino = db[id].departamento_destino]_vars

\* C4: an update of an existing row by a logged-in department that is neither
\* its sender nor its recipient is answered 403 and leaves the whole table,
\* that row and every other row, as it was.
C4_ThirdPartyForbidden ==
    [][(resp'.op = "update_solicitud" /\ session.departamento \in Deps) =>
          \A id \in DOMAIN db :
              (/\ session.departamento # db[id].dependencia
               /\ session.departamento # db[id].departamento_destino)
              => \A data \in UpdatePayloads, ok \in BOOLEAN :
                     update_solicitud(id, data, ok)
                     => (resp'.code = 403 /\ db' = db)]_vars

\* A third department has just been refused on a row sent from one department
\* to another, in a table that holds a second row, one that the acting
\* department sent and its recipient has attended.
C4_Witness ==
    /\ resp.op = "update_solicitud" /\ resp.code = 403
    /\ session.departamento \in Deps
    /\ \E i \in DOMAIN db, j \in DOMAIN db :
           /\ i # j
           /\ session.departamento # db[i].dependencia
           /\ session.departamento # db[i].departamento_destino
           /\ db[i].dependencia # db[i].departamento_destino
           /\ db[j].dependencia = session.departamento
           /\ db[j].descripcion = "d1"
           /\ db[j].status = "Atendida"

\* C5: a create answered 201 adds exactly one row, with status "Recibida",
\* dependencia the creator's department, and cedula, nombre, tipo,
\* descripcion and departamento_destino as in the payload; the other rows
\* stay.
C5_CreateStamps ==
    [][\A data \in CreatePayloads, now \in Times, ok \in BOOLEAN :
          (/\ resp'.op = "create_solicitud"
           /\ resp'.code = 201
           /\ create_solicitud(data, now, ok))
          => \E n \in DOMAIN db' \ DOMAIN db :
                 /\ DOMAIN db' = DOMAIN db \cup {n}
                 /\ \A i \in DOMAIN db : db'[i] = db[i]
                 /\ session.departamento \in Deps
                 /\ db'[n].status = "Recibida"
                 /\ db'[n].dependencia = session.departamento
                 /\ db'[n].cedula = data.cedula
                 /\ db'[n].nombre = data.nombre
                 /\ db'[n].tipo = data.tipo
                 /\ db'[n].descripcion = data.descripcion
                 /\ db'[n].departamento_destino = data.departamento_destino]_vars

\* A department other than "DGA" has just created a row from the payload
\* addressed to "DGA", the one that carries its own dependencia ("DGA") and
\* status keys.
C5_Witness ==
    /\ resp.op = "create_solicitud" /\ resp.code = 201
    /\ session.departamento # "DGA"
    /\ NextId(db) - 1 \in DOMAIN db
    /\ LET s == db[NextId(db) - 1]
       IN /\ s.departamento_destino = "DGA"
          /\ s.dependencia = session.departamento
          /\ s.status = "Recibida"

\* C6: with no department in the session, a list, create, update or delete
\* is answered 401 and leaves the table as it was.
C6_UnauthorizedFirst ==
    [][(Falsy(session.departamento) /\ (List \/ Create \/ Update \/ Delete))
          => (resp'.code = 401 /\ db' = db)]_vars

\* C8: no step changes the fecha_creacion, dependencia, id, cedula, nombre or
\* tipo of a row that stays in the table.
C8_Immutable ==
    [][\A i \in DOMAIN db \cap DOMAIN db' :
          /\ db'[i].fecha_creacion = db[i].fecha_creacion
          /\ db'[i].dependencia = db[i].dependencia
          /\ db'[i].id = db[i].id
          /\ db'[i].cedula = db[i].cedula
          /\ db'[i].nombre = db[i].nombre
          /\ db'[i].tipo = db[i].tipo]_vars

\* A row that its sender and its recipient have both updated with payloads
\* carrying fecha_creacion, dependencia, id, cedula, nombre and tipo, and
\* that still has the values of its creation.
C8_Witness ==
    \E i \in DOMAIN db :
        /\ db[i].descripcion = "d1"
        /\ db[i].status = "Atendida"
        /\ db[i].fecha_creacion = 0
        /\ db[i].dependencia # "DGA"
        /\ db[i].cedula = "V-1"
        /\ db[i].id = i

\* The update has come to its commit: the row exists and the acting
\* department is its sender or its recipient.
UpdateCommits(id) ==
    /\ id \in DOMAIN db
    /\ session.departamento \in Deps
    /\ session.departamento \in {db[id].dependencia, db[id].departamento_destino}

\* C10: a create, update or delete whose commit fails is answered 400 and
\* leaves the table exactly as it was; and whenever one of them is answered
\* 400 the table is as it was.
C10_Atomic ==
    [][/\ (resp'.code = 400
           /\ resp'.op \in {"create_solicitud", "update_solicitud", "delete_solicitud"})
          => db' = db
       /\ \A id \in DOMAIN db, data \in UpdatePayloads :
              (/\ resp'.op = "update_solicitud"
               /\ UpdateCommits(id)
               /\ update_solicitud(id, data, FALSE))
              => (resp'.code = 400 /\ db' = db)
       /\ \A id \in DOMAIN db, data \in UpdatePayloads :
              (/\ resp'.op = "update_solicitud"
               /\ UpdateCommits(id)
               /\ session.departamento = db[id].dependencia
               /\ "descripcion" \in DOMAIN data
               /\ data.descripcion = NULL
               /\ update_solicitud(id, data, TRUE))
              => (resp'.code = 400 /\ db' = db)
       /\ \A data \in CreatePayloads, now \in Times :
              (/\ resp'.op = "create_solicitud"
               /\ session.departamento \in Deps
               /\ RequiredKeys \subseteq DOMAIN data
               /\ create_solicitud(data, now, FALSE))
              => (resp'.code = 400 /\ db' = db)
       /\ \A id \in DOMAIN db :
              (resp'.op = "delete_solicitud" /\ delete_solicitud(id, FALSE))
              => (resp'.code = 400 /\ db' = db)]_vars

\* The sender's update has just failed at its commit.
C10_Witness ==
    /\ resp.op = "update_solicitud" /\ resp.code = 400
    /\ \E i \in DOMAIN db :
           /\ db[i].dependencia = session.departamento
           /\ db[i].descripcion = "d0"

IsReport == resp.op = "export_pdf" /\ resp.code = 200

\* C9: in a report, a new page (with its continuation title) is opened
\* exactly when the cursor is below 100 at the start of a record; every
\* record header is drawn at 100 or above; the header and its eight field
\* lines are on one page; the page changes nowhere else.
C9_Pagination ==
    IsReport =>
        LET ops == resp.body
        IN \A k \in 1..Len(ops) :
               /\ ops[k].what = "encabezado" =>
                      /\ ops[k].y >= 100
                      /\ k > 1
                      /\ IF ops[k - 1].what = "continuacion"
                         THEN /\ k > 2
                              /\ ops[k - 2].what \in {"fecha", "linea"}
                              /\ ops[k - 2].y - 20 < 100
                              /\ ops[k - 1].page = ops[k - 2].page + 1
                              /\ ops[k - 1].y = height - 50
                              /\ ops[k].page = ops[k - 1].page
                         ELSE /\ ops[k - 1].what \in {"fecha", "linea"}
                              /\ ops[k - 1].y - 20 >= 100
                              /\ ops[k].page = ops[k - 1].page
                      /\ k + 8 <= Len(ops)
                      /\ \A j \in 1..8 :
                             /\ ops[k + j].what = "detalle"
                             /\ ops[k + j].id = ops[k].id
                             /\ ops[k + j].page = ops[k].page
               /\ ops[k].what = "continuacion" =>
                      k < Len(ops) /\ ops[k + 1].what = "encabezado"
               /\ (k > 1 /\ ops[k].page # ops[k - 1].page) =>
                      ops[k].what = "continuacion"

\* A report in which a record starts a second page.
C9_Witness ==
    /\ IsReport
    /\ \E k \in 1..Len(resp.body) :
           resp.body[k].what = "encabezado" /\ resp.body[k].page = 2

====
